---------------------------- MODULE Spec2Model ----------------------------
(***************************************************************************)
(* State-machine model of data/components/player.py: the Player sprite     *)
(* (direction stack, action / hit states, per-tick update) and the         *)
(* _ImageProcessing mixin (equipment resolver, compositor, hit-flash       *)
(* clips).                                                                 *)
(*                                                                         *)
(* Time is measured in units of 10 ms.  A clip does not store the absolute *)
(* time of its last frame change but the time elapsed since then (field    *)
(* `since`, NoTimer while the timer is unset), saturated at SinceCap, which *)
(* is above every threshold a clip compares it with.                       *)
(***************************************************************************)
EXTENDS Integers, Sequences, FiniteSets, TLC

VARIABLES
    direction_stack,   \* self.direction_stack : held directions, oldest first
    direction,         \* self.direction
    exact_position,    \* self.exact_position  : <<x, y>>
    old_position,      \* self.old_position    : <<x, y>>
    rect,              \* self.rect.topleft    : <<x, y>>
    action_state,      \* self.action_state    : "normal" | "attack"
    hit_state,         \* self.hit_state
    redraw,            \* self.redraw
    health,            \* self.health
    image,             \* self.image           : the displayed frame
    all_animations,    \* self.all_animations  : clip table, playback state
    weapon,            \* self.equipped["weapon"] : attacking flag, call parity
    pc,                \* position inside Player.update
    dt,                \* the dt argument of the update in progress
    last,              \* history: the last handler called and its argument
    pressed_at,        \* history: per direction, when it was last pressed (0: not held)
    clock,             \* history: number of bound key presses so far
    shown,             \* history: hit-flash frame changes since the last accepted hit
    before,            \* history: exact_position when the most recent update began
    equipped,          \* self.equipped : the item of each slot
    built,             \* whether make_images has composed the frames below
    composed,          \* the frames make_images composes, by (attack, direction, frame)
    blitted,           \* what each slot contributed to each of those frames
    clip,              \* one clip of the table, queried on its own
    span,              \* history: time since the first query of `clip` (NoTimer: none yet)
    changes,           \* history: frame changes of `clip` since it was made or reset
    frames,            \* the palettes of the frames of one clip given to make_hit_images
    hit_frames         \* the palette and the colorkey of each frame it makes of them

pvars == <<direction_stack, direction, exact_position, old_position, rect,
           action_state, hit_state, redraw, health, image, all_animations,
           weapon, pc, dt>>
hvars == <<last, pressed_at, clock, shown, before>>
ivars == <<equipped, built, composed, blitted>>
cvars == <<clip, span, changes>>
tvars == <<frames, hit_frames>>
vars == <<pvars, hvars, ivars, cvars, tvars>>

---------------------------------------------------------------------------
(* Program constants *)

STANDARD_ANIMATION_FPS == 7
HIT_ANIMATION_FPS == 20
HIT_LOOPS == 10
INITIAL_HEALTH == 28

Directions == {"front", "back", "left", "right"}
Actions == {"normal", "attack"}
Slots == {"head", "body", "weapon", "armleg", "shield"}

DRAW_ORDER ==
    [front |-> <<"body", "head", "weapon", "armleg", "shield">>,
     back  |-> <<"shield", "armleg", "weapon", "body", "head">>,
     left  |-> <<"shield", "body", "head", "weapon", "armleg">>,
     right |-> <<"weapon", "body", "head", "armleg", "shield">>]

DRAW_ATTACK_ORDER ==
    [front |-> <<"shield", "body", "head", "weapon", "armleg">>,
     back  |-> <<"armleg", "weapon", "body", "head", "shield">>,
     left  |-> <<"shield", "body", "head", "weapon", "armleg">>,
     right |-> <<"weapon", "body", "head", "armleg", "shield">>]

\* Player.set_controls: the four bound keys.
controls ==
    [K_DOWN |-> "front", K_UP |-> "back", K_LEFT |-> "left", K_RIGHT |-> "right"]

\* prepare.DIRECT_DICT: the unit movement vector of each direction.
DIRECT_DICT ==
    [front |-> <<0, 1>>, back |-> <<0, -1>>, left |-> <<-1, 0>>, right |-> <<1, 0>>]

---------------------------------------------------------------------------
(* Bounds of the model *)

\* Positions stay within [-MaxCoord, MaxCoord] on both axes.
MaxCoord == 20
\* Number of bound key presses whose order the history records.
MaxClock == 3
\* Health is followed down to -MaxLoss.
MaxLoss == 10
\* Saturation of a clip's elapsed time (above 1000/7 ms = 14.3 units).
SinceCap == 15

\* A key that is not bound.
K_SPACE == "K_SPACE"
AllKeys == DOMAIN controls \cup {K_SPACE}

---------------------------------------------------------------------------
(* tools.Anim: an animation clip *)

NoTimer == -1

\* Anim(frames, fps, loops): the clip as constructed, and as reset() leaves it.
Anim(nframes, fps, loops) ==
    [nframes |-> nframes, fps |-> fps, loops |-> loops,
     frame |-> 0, since |-> NoTimer, loop_count |-> 0, done |-> FALSE]

\* Time advancing by d units, seen from one clip.
Elapse(c, d) ==
    IF c.since = NoTimer THEN c
    ELSE [c EXCEPT !.since = IF c.since + d > SinceCap THEN SinceCap ELSE c.since + d]

\* now - timer > 1000.0 / fps, with the elapsed time in units of 10 ms.
Due(c) == c.fps * c.since > 100

\* Anim.get_next_frame(now): the clip after the query.
GetNextFrame(c) ==
    LET t == IF c.since = NoTimer THEN [c EXCEPT !.since = 0] ELSE c
    IN  IF ~t.done /\ Due(t)
        THEN LET f == (t.frame + 1) % t.nframes
                 n == IF f = 0 /\ t.loops # -1 THEN t.loop_count + 1 ELSE t.loop_count
                 fin == f = 0 /\ t.loops # -1 /\ n >= t.loops
             IN  [t EXCEPT !.frame = IF fin THEN t.nframes - 1 ELSE f,
                           !.loop_count = n,
                           !.done = fin,
                           !.since = 0]
        ELSE t

\* Anim.reset()
Reset(c) == Anim(c.nframes, c.fps, c.loops)

---------------------------------------------------------------------------
(* The animation table *)

HitIndex == {0, 1}
ClipIds == HitIndex \X Actions \X Directions

\* The clips make_images wraps its frames in: two frames, standard rate, endless.
StandardClips == [d \in Directions |-> Anim(2, STANDARD_ANIMATION_FPS, -1)]

\* make_hit_images without the loops argument
HitClipsEndless(from_dict) ==
    [d \in DOMAIN from_dict |-> Anim(from_dict[d].nframes, HIT_ANIMATION_FPS, -1)]

\* The clips make_hit_images derives: as many frames, the hit rate, ten loops.
HitClips(from_dict) ==
    [d \in DOMAIN from_dict |-> Anim(from_dict[d].nframes, HIT_ANIMATION_FPS, HIT_LOOPS)]

\* make_all_animations: [standard, strobing], each by action and direction.
MakeAllAnimations ==
    LET standard == [a \in Actions |-> StandardClips]
        strobing == [a \in Actions |-> HitClips(standard[a])]
    IN  [id \in ClipIds |->
            IF id[1] = 0 THEN standard[id[2]][id[3]] ELSE strobing[id[2]][id[3]]]

\* True indexes a list as 1, False as 0.
Index(b) == IF b THEN 1 ELSE 0

\* A frame of the table: frames[idx] of the clip (hit, action, dir).
Frame(id, idx) == [hit |-> id[1], action |-> id[2], dir |-> id[3], idx |-> idx]
NoImage == [hit |-> -1, action |-> "none", dir |-> "none", idx |-> -1]

---------------------------------------------------------------------------
(* _ImageProcessing.make_hit_images: the palette of the hit-flash frames *)

\* A colour is <<red, green, blue>>; the source indexes the channels 0, 1, 2.
RED == 1
BLUE == 3
TINT == 150
MAX_CHANNEL == 255
FILL == <<85, 0, 85>>

\* The frames of a clip are indexed from 0, as enumerate() does.
FrameIndex == {0, 1}

\* color[index] = min(color[index] + 150, 255)
Boost(color, index) ==
    [color EXCEPT ![index] = IF @ + TINT < MAX_CHANNEL THEN @ + TINT ELSE MAX_CHANNEL]

\* index, colorkey = (0, (235,0,85)) if i else (2, (85,0,235))
TintIndex(i) == IF i # 0 THEN RED ELSE BLUE
Colorkey(i) == IF i # 0 THEN <<235, 0, 85>> ELSE <<85, 0, 235>>

\* The 8-bit image of a frame: the fill colour under the colours of the frame.
Palette(frame) == <<FILL>> \o frame

\* One pass of the inner loop: frame i of the clip, tinted.
HitFrame(frame, i) ==
    [palette |-> [k \in DOMAIN Palette(frame) |-> Boost(Palette(frame)[k], TintIndex(i))],
     colorkey |-> Colorkey(i)]

\* The frames make_hit_images appends for one clip.
MakeHitFrames(from_frames) ==
    [i \in DOMAIN from_frames |-> HitFrame(from_frames[i], i)]

NoHitFrames == [i \in {} |-> FILL]
PlainFrames == [i \in FrameIndex |-> <<FILL>>]

---------------------------------------------------------------------------
(* Sequences *)

Top(s) == s[Len(s)]
Contains(s, x) == \E i \in 1..Len(s) : s[i] = x

\* list.remove(x): the first occurrence of x is taken out.
Remove(s, x) ==
    LET i == CHOOSE j \in 1..Len(s) : s[j] = x /\ \A k \in 1..(j - 1) : s[k] # x
    IN  SubSeq(s, 1, i - 1) \o SubSeq(s, i + 1, Len(s))

---------------------------------------------------------------------------
(* _ImageProcessing: the equipment resolver and the compositor *)

\* The pixels of a cell, and the colour key a fresh canvas is filled with.
Pixels == {1, 2}
COLOR_KEY == <<"COLOR_KEY">>

\* An image: its name and the pixels where it is opaque.  Nothing is None;
\* Fault is the exception an attribute lookup on None raises.
Image(slot, variant, key, idx, opaque) ==
    [name |-> <<slot, variant, key, idx>>, opaque |-> opaque]
Nothing == [name |-> <<"None">>, opaque |-> {}]
Fault == [name |-> <<"Fault">>, opaque |-> {}]

\* What an item holds for one direction: a single image, or a pair of frames.
ImageEntry(slot, variant, key, shape, opaque) ==
    IF shape = "pair"
    THEN [shape |-> "pair",
          frames |-> <<Image(slot, variant, key, 0, opaque),
                       Image(slot, variant, key, 1, opaque)>>]
    ELSE [shape |-> "single",
          frames |-> <<Image(slot, variant, key, 0, opaque)>>]

ImageKeys(slot) ==
    IF slot = "armleg" THEN Directions \cup {"right_with_shield"} ELSE Directions

\* An equipped item: images by direction; attack_images is "normal", a set
\* of its own ("own") or None ("none").
Item(slot, shape, attack, opaque) ==
    [present |-> TRUE,
     images |-> [k \in ImageKeys(slot) |-> ImageEntry(slot, "normal", k, shape, opaque)],
     attack_images |-> attack,
     own_attack_images |-> [k \in Directions |-> ImageEntry(slot, "attack", k, shape, opaque)]]

\* An empty slot: equipped[part] is None.
NoItem(slot) ==
    [present |-> FALSE,
     images |-> [k \in ImageKeys(slot) |-> ImageEntry(slot, "normal", k, "single", {})],
     attack_images |-> "none",
     own_attack_images |-> [k \in Directions |-> ImageEntry(slot, "attack", k, "single", {})]]

\* to_blit[frame], and to_blit itself when it cannot be indexed
\* (frames are indexed from 0 in the source, from 1 here)
PickFrame(to_blit, frame) ==
    IF to_blit.shape = "pair" THEN to_blit.frames[frame + 1] ELSE to_blit.frames[1]

\* get_part_image(direction, part, frame)
GetPartImage(eq, dir, part, frame) ==
    IF ~eq[part].present THEN Fault
    ELSE IF part = "armleg" /\ dir = "right" /\ eq["shield"].present
         THEN PickFrame(eq[part].images["right_with_shield"], frame)
         ELSE PickFrame(eq[part].images[dir], frame)

\* get_attack_part_image(direction, part, frame)
GetAttackPartImage(eq, dir, part, frame) ==
    IF ~eq[part].present THEN Fault
    ELSE IF eq[part].attack_images = "normal"
         THEN PickFrame(eq[part].images[dir], frame)
         ELSE IF eq[part].attack_images = "own"
              THEN PickFrame(eq[part].own_attack_images[dir], frame)
              ELSE Nothing

\* The frame whose composition raised.
FaultCanvas == [p \in Pixels |-> Fault.name]

\* image.blit(blitting, (0,0)): the opaque pixels of `blitting` replace the canvas's.
Blit(canvas, blitting) ==
    IF canvas = FaultCanvas \/ blitting = Fault THEN FaultCanvas
    ELSE [p \in Pixels |-> IF p \in blitting.opaque THEN blitting.name ELSE canvas[p]]

\* make_images, the body of the loop over the parts, without the test of equipped[part]
ContributionUnguarded(eq, attack, dir, part, frame) ==
    IF attack THEN GetAttackPartImage(eq, dir, part, frame)
    ELSE GetPartImage(eq, dir, part, frame)

\* make_images, the body of the loop over the parts: what the part
\* contributes to the frame (Nothing: no blit)
Contribution(eq, attack, dir, part, frame) ==
    IF eq[part].present
    THEN IF attack THEN GetAttackPartImage(eq, dir, part, frame)
         ELSE GetPartImage(eq, dir, part, frame)
    ELSE Nothing

RECURSIVE Paint(_, _, _, _, _, _, _)
\* make_images, the loop over order[direction], from part number i on
Paint(canvas, eq, attack, parts, dir, frame, i) ==
    IF i > Len(parts) THEN canvas
    ELSE LET blitting == Contribution(eq, attack, dir, parts[i], frame)
         IN  Paint(IF blitting # Nothing THEN Blit(canvas, blitting) ELSE canvas,
                   eq, attack, parts, dir, frame, i + 1)

\* make_images that never reads its order argument
MakeImagesDefaultOrder(eq, attack, order) ==
    [d \in Directions |->
        [frame \in {0, 1} |->
            Paint([p \in Pixels |-> COLOR_KEY], eq, attack, DRAW_ORDER[d], d, frame, 1)]]

\* make_images(attack, order): the two frames of each dir
MakeImages(eq, attack, order) ==
    [d \in Directions |->
        [frame \in {0, 1} |->
            Paint([p \in Pixels |-> COLOR_KEY], eq, attack, order[d], d, frame, 1)]]

\* Player.set_equips: every slot holds an item.
SetEquips == [slot \in Slots |-> Item(slot, "pair", "normal", Pixels)]

FrameKeys == BOOLEAN \X Directions \X {0, 1}

---------------------------------------------------------------------------
(* Player *)

Speed == 1

InitPlayer ==
    /\ direction_stack = <<>>
    /\ direction = "back"
    /\ exact_position = <<0, 0>>
    /\ old_position = <<0, 0>>
    /\ rect = <<0, 0>>
    /\ action_state = "normal"
    /\ hit_state = FALSE
    /\ redraw = TRUE
    /\ health = INITIAL_HEALTH
    /\ image = NoImage
    /\ all_animations = MakeAllAnimations
    /\ weapon = [attacking |-> FALSE, asked |-> 0]
    /\ pc = "idle"
    /\ dt = 0
    /\ last = [op |-> "init", arg |-> "none"]
    /\ pressed_at = [d \in Directions |-> 0]
    /\ clock = 0
    /\ shown = 0
    /\ before = <<0, 0>>

\* Nothing composed yet.
InitFrames ==
    /\ built = FALSE
    /\ composed = [k \in FrameKeys |-> [p \in Pixels |-> COLOR_KEY]]
    /\ blitted = [k \in FrameKeys |-> [slot \in Slots |-> Nothing]]

\* The clip queried on its own is one of the table, not queried yet.
InitClipAs(id) ==
    /\ clip = MakeAllAnimations[id]
    /\ span = NoTimer
    /\ changes = 0

\* make_hit_images has not run on `frames` yet.
InitPalettes(given) ==
    /\ frames = given
    /\ hit_frames = NoHitFrames

Init ==
    /\ InitPlayer
    /\ equipped = SetEquips
    /\ InitFrames
    /\ InitClipAs(<<1, "normal", "back">>)
    /\ InitPalettes(PlainFrames)

\* add_direction without the removal of the direction already held
PushedKeepingOld(stack, d) == stack \o <<d>>

\* What add_direction leaves on the stack.
Pushed(stack, d) ==
    (IF Contains(stack, d) THEN Remove(stack, d) ELSE stack) \o <<d>>

\* pop_direction taking the newest entry off instead of the released one
PoppedTop(stack, d) ==
    IF Contains(stack, d) THEN SubSeq(stack, 1, Len(stack) - 1) ELSE stack

\* What pop_direction leaves on the stack.
Popped(stack, d) ==
    IF Contains(stack, d) THEN Remove(stack, d) ELSE stack

\* Player.add_direction(key)
AddDirection(key) ==
    /\ pc = "idle"
    /\ direction_stack' =
          IF key \in DOMAIN controls
          THEN Pushed(direction_stack, controls[key])
          ELSE direction_stack
    /\ UNCHANGED <<direction, exact_position, old_position, rect, action_state,
                   hit_state, redraw, health, image, all_animations, weapon, pc, dt>>

\* Player.pop_direction(key)
PopDirection(key) ==
    /\ pc = "idle"
    /\ direction_stack' =
          IF key \in DOMAIN controls
          THEN Popped(direction_stack, controls[key])
          ELSE direction_stack
    /\ UNCHANGED <<direction, exact_position, old_position, rect, action_state,
                   hit_state, redraw, health, image, all_animations, weapon, pc, dt>>

\* Player.collide_with_solid()
CollideWithSolid ==
    /\ pc = "idle"
    /\ exact_position' = old_position
    /\ rect' = old_position
    /\ UNCHANGED <<direction_stack, direction, old_position, action_state, hit_state,
                   redraw, health, image, all_animations, weapon, pc, dt>>

\* health after an accepted hit, had the damage line used max
DamagedFloor(h, enemy_damage) ==
    IF h - enemy_damage > 0 THEN h - enemy_damage ELSE 0

\* health after an accepted hit
Damaged(h, enemy_damage) ==
    IF h - enemy_damage < 0 THEN h - enemy_damage ELSE 0

\* got_hit without the test of hit_state
GotHitAgain(enemy_damage) ==
    /\ pc = "idle"
    /\ health' = Damaged(health, enemy_damage)
    /\ hit_state' = TRUE
    /\ UNCHANGED <<direction_stack, direction, exact_position, old_position, rect,
                   action_state, redraw, image, all_animations, weapon, pc, dt>>

\* Player.got_hit(enemy_damage)
GotHit(enemy_damage) ==
    /\ pc = "idle"
    /\ IF ~hit_state
       THEN /\ health' = Damaged(health, enemy_damage)
            /\ hit_state' = TRUE
       ELSE UNCHANGED <<health, hit_state>>
    /\ UNCHANGED <<direction_stack, direction, exact_position, old_position, rect,
                   action_state, redraw, image, all_animations, weapon, pc, dt>>

\* weapon.start_attack() answering `ready`: the weapon notes the call and,
\* when ready, is attacking.
StartAttack(w, ready) ==
    [attacking |-> w.attacking \/ ready, asked |-> 1 - w.asked]

\* attack without the test of action_state
AttackAnyway(ready) ==
    /\ pc = "idle"
    /\ weapon' = StartAttack(weapon, ready)
    /\ IF ready
       THEN action_state' = "attack" /\ redraw' = TRUE
       ELSE UNCHANGED <<action_state, redraw>>
    /\ UNCHANGED <<direction_stack, direction, exact_position, old_position, rect,
                   hit_state, health, image, all_animations, pc, dt>>

\* attack entering the attack state without asking for a redraw
AttackQuietly(ready) ==
    /\ pc = "idle"
    /\ IF action_state # "attack"
       THEN /\ weapon' = StartAttack(weapon, ready)
            /\ IF ready
               THEN action_state' = "attack" /\ redraw' = redraw
               ELSE UNCHANGED <<action_state, redraw>>
       ELSE UNCHANGED <<weapon, action_state, redraw>>
    /\ UNCHANGED <<direction_stack, direction, exact_position, old_position, rect,
                   hit_state, health, image, all_animations, pc, dt>>

\* Player.attack(), the weapon answering `ready`
Attack(ready) ==
    /\ pc = "idle"
    /\ IF action_state # "attack"
       THEN /\ weapon' = StartAttack(weapon, ready)
            /\ IF ready
               THEN action_state' = "attack" /\ redraw' = TRUE
               ELSE UNCHANGED <<action_state, redraw>>
       ELSE UNCHANGED <<weapon, action_state, redraw>>
    /\ UNCHANGED <<direction_stack, direction, exact_position, old_position, rect,
                   hit_state, health, image, all_animations, pc, dt>>

\* The clip table after time has advanced by d.
ElapseAll(anims, d) == [id \in ClipIds |-> Elapse(anims[id], d)]

\* exact_position after move(d) along the top of the stack
Advanced(pos, stack, d) ==
    IF stack # <<>>
    THEN <<pos[1] + Speed * DIRECT_DICT[Top(stack)][1] * d,
           pos[2] + Speed * DIRECT_DICT[Top(stack)][2] * d>>
    ELSE pos

InBox(pos) ==
    /\ pos[1] \in -MaxCoord..MaxCoord
    /\ pos[2] \in -MaxCoord..MaxCoord

\* check_states that never leaves the attack state
ResolvedActionKept == action_state

\* action_state as check_states resolves it from the weapon
ResolvedAction == 
    IF action_state = "attack" /\ ~weapon.attacking THEN "normal" ELSE action_state

\* check_states looking up the hit-flash clip before it resolves the action state
CheckStatesStale(d) ==
    /\ pc = "idle"
    /\ InBox(Advanced(exact_position, direction_stack, d))
    /\ dt' = d
    /\ pc' = "adjust_frames"
    /\ action_state' = ResolvedAction
    /\ LET aged == ElapseAll(all_animations, d)
           id == <<Index(hit_state), action_state, direction>>
       IN  IF hit_state
           THEN /\ IF aged[id].done
                   THEN /\ all_animations' = [aged EXCEPT ![id] = Reset(aged[id])]
                        /\ hit_state' = FALSE
                   ELSE /\ all_animations' = aged
                        /\ hit_state' = hit_state
                /\ redraw' = TRUE
           ELSE /\ all_animations' = aged
                /\ hit_state' = hit_state
                /\ redraw' = (redraw \/ ResolvedAction # action_state)
    /\ UNCHANGED <<direction_stack, direction, exact_position, old_position, rect,
                   health, image, weapon>>

\* Player.update(now, dt), first call: time has advanced by d; check_states()
CheckStates(d) ==
    /\ pc = "idle"
    /\ InBox(Advanced(exact_position, direction_stack, d))
    /\ dt' = d
    /\ pc' = "adjust_frames"
    /\ action_state' = ResolvedAction
    /\ LET aged == ElapseAll(all_animations, d)
           id == <<Index(hit_state), ResolvedAction, direction>>
       IN  IF hit_state
           THEN /\ IF aged[id].done
                   THEN /\ all_animations' = [aged EXCEPT ![id] = Reset(aged[id])]
                        /\ hit_state' = FALSE
                   ELSE /\ all_animations' = aged
                        /\ hit_state' = hit_state
                /\ redraw' = TRUE
           ELSE /\ all_animations' = aged
                /\ hit_state' = hit_state
                /\ redraw' = (redraw \/ ResolvedAction # action_state)
    /\ UNCHANGED <<direction_stack, direction, exact_position, old_position, rect,
                   health, image, weapon>>

\* adjust_frames reading the bottom of the stack
FacingOldest == IF direction_stack # <<>> THEN direction_stack[1] ELSE direction

\* direction as adjust_frames selects it
Facing == IF direction_stack # <<>> THEN Top(direction_stack) ELSE direction

\* adjust_frames querying the clip in every tick
AdjustFramesAlways ==
    /\ pc = "adjust_frames"
    /\ pc' = "move"
    /\ direction' = Facing
    /\ LET id == <<Index(hit_state), action_state, Facing>>
           animation == GetNextFrame(all_animations[id])
       IN  /\ all_animations' = [all_animations EXCEPT ![id] = animation]
           /\ image' = Frame(id, animation.frame)
    /\ redraw' = FALSE
    /\ UNCHANGED <<direction_stack, exact_position, old_position, rect, action_state,
                   hit_state, health, weapon, dt>>

\* Player.update, second call: adjust_frames(now)
AdjustFrames ==
    /\ pc = "adjust_frames"
    /\ pc' = "move"
    /\ direction' = Facing
    /\ LET id == <<Index(hit_state), action_state, Facing>>
           animation == GetNextFrame(all_animations[id])
       IN  IF direction_stack # <<>> \/ hit_state \/ redraw
           THEN /\ all_animations' = [all_animations EXCEPT ![id] = animation]
                /\ image' = Frame(id, animation.frame)
           ELSE UNCHANGED <<all_animations, image>>
    /\ redraw' = FALSE
    /\ UNCHANGED <<direction_stack, exact_position, old_position, rect, action_state,
                   hit_state, health, weapon, dt>>

\* update calling move(dt) in attack state too
MoveAnyway ==
    /\ pc = "move"
    /\ pc' = "commit"
    /\ old_position' = exact_position
    /\ exact_position' = Advanced(exact_position, direction_stack, dt)
    /\ UNCHANGED <<direction_stack, direction, rect, action_state, hit_state, redraw,
                   health, image, all_animations, weapon, dt>>

\* Player.update, third call when not attacking: move(dt)
Move ==
    /\ pc = "move"
    /\ action_state # "attack"
    /\ pc' = "commit"
    /\ old_position' = exact_position
    /\ exact_position' = Advanced(exact_position, direction_stack, dt)
    /\ UNCHANGED <<direction_stack, direction, rect, action_state, hit_state, redraw,
                   health, image, all_animations, weapon, dt>>

\* Player.update, third call when attacking: weapon.attack(self, now); the
\* weapon goes on attacking or ends its attack.
WeaponAttack(goes_on) ==
    /\ pc = "move"
    /\ action_state = "attack"
    /\ pc' = "commit"
    /\ weapon' = [weapon EXCEPT !.attacking = goes_on]
    /\ UNCHANGED <<direction_stack, direction, exact_position, old_position, rect,
                   action_state, hit_state, redraw, health, image, all_animations, dt>>

\* Player.update, last statement: rect.topleft = exact_position
Commit ==
    /\ pc = "commit"
    /\ pc' = "idle"
    /\ dt' = 0
    /\ rect' = exact_position
    /\ UNCHANGED <<direction_stack, direction, exact_position, old_position,
                   action_state, hit_state, redraw, health, image, all_animations,
                   weapon>>

---------------------------------------------------------------------------
(* History *)

Note(op, arg) == last' = [op |-> op, arg |-> arg]

\* A press of a bound key is stamped with the next clock value.
Press(key) ==
    IF key \in DOMAIN controls
    THEN /\ clock < MaxClock
         /\ clock' = clock + 1
         /\ pressed_at' = [pressed_at EXCEPT ![controls[key]] = clock + 1]
    ELSE UNCHANGED <<pressed_at, clock>>

\* A release of a bound key clears its stamp.
Release(key) ==
    /\ pressed_at' = IF key \in DOMAIN controls
                     THEN [pressed_at EXCEPT ![controls[key]] = 0]
                     ELSE pressed_at
    /\ UNCHANGED clock

Held == {d \in Directions : pressed_at[d] > 0}
MostRecentlyPressed == CHOOSE d \in Held : \A e \in Held : pressed_at[e] <= pressed_at[d]

\* The clip adjust_frames is about to query, and whether the query changes its frame.
Selected == <<Index(hit_state), action_state, Facing>>
Queried == direction_stack # <<>> \/ hit_state \/ redraw
Advances(c) == c.since # NoTimer /\ ~c.done /\ Due(c)

\* Hit-flash frame changes are counted from the accepted hit on.
CountShown ==
    shown' = IF Queried /\ hit_state /\ Advances(all_animations[Selected])
             THEN shown + 1 ELSE shown

Untimed == UNCHANGED <<pressed_at, clock, before, ivars, cvars, tvars>>
Quiet == UNCHANGED <<pressed_at, clock, shown, before, ivars, cvars, tvars>>

---------------------------------------------------------------------------
(* Specifications *)

\* The length of a tick, in units of 10 ms.
TickLengths == {20}
Damages == {0, 5}

Tick == \E d \in TickLengths : CheckStates(d) /\ Note("update", d) /\ Quiet
TickAdjust == AdjustFrames /\ CountShown /\ UNCHANGED last /\ Untimed
TickMove == Move /\ UNCHANGED last /\ Quiet
TickWeapon == \E goes_on \in BOOLEAN : WeaponAttack(goes_on) /\ UNCHANGED last /\ Quiet
TickCommit == Commit /\ UNCHANGED last /\ Quiet
Collision == CollideWithSolid /\ Note("collide_with_solid", 0) /\ Quiet

\* Presses and releases of every key between ticks, the order of the presses recorded.
KeyDown ==
    \E key \in AllKeys : AddDirection(key) /\ Press(key) /\ Note("add_direction", key)
                            /\ UNCHANGED <<shown, before, ivars, cvars, tvars>>
KeyUp ==
    \E key \in AllKeys : PopDirection(key) /\ Release(key) /\ Note("pop_direction", key)
                            /\ UNCHANGED <<shown, before, ivars, cvars, tvars>>
NextKeys == KeyDown \/ KeyUp \/ Tick \/ TickAdjust \/ TickMove \/ TickCommit
SpecKeys == Init /\ [][NextKeys]_vars

\* Keys, collisions and attacks between ticks.
SomeKeys == {"K_UP", "K_RIGHT", K_SPACE}
KeyDownSome ==
    \E key \in SomeKeys : AddDirection(key) /\ Note("add_direction", key) /\ Quiet
KeyUpSome ==
    \E key \in SomeKeys : PopDirection(key) /\ Note("pop_direction", key) /\ Quiet
AttackKey == \E ready \in BOOLEAN : Attack(ready) /\ Note("attack", ready) /\ Quiet
NextAttack ==
    \/ KeyDownSome \/ KeyUpSome \/ Collision \/ AttackKey
    \/ Tick \/ TickAdjust \/ TickMove \/ TickWeapon \/ TickCommit
SpecAttack == Init /\ [][NextAttack]_vars

\* Hits and one direction key between ticks.
TurnKeys == {"K_RIGHT"}
Turn == \E key \in TurnKeys : AddDirection(key) /\ Note("add_direction", key) /\ Quiet
Straighten == \E key \in TurnKeys : PopDirection(key) /\ Note("pop_direction", key) /\ Quiet
Hit ==
    \E enemy_damage \in Damages :
        /\ hit_state \/ health - enemy_damage >= -MaxLoss
        /\ GotHit(enemy_damage)
        /\ Note("got_hit", enemy_damage)
        /\ shown' = IF hit_state THEN shown ELSE 0
        /\ Untimed
NextHit ==
    \/ Turn \/ Straighten \/ Hit
    \/ Tick \/ TickAdjust \/ TickMove \/ TickCommit
SpecHit == Init /\ [][NextHit]_vars

\* The compositor on every equipment of the catalogue below: each slot is
\* empty or holds an item of either shape and any attack marker; the images
\* cover the cell, except those of at most one slot, which leave pixel 2
\* transparent.
Shapes == {"single", "pair"}
AttackImages == {"normal", "own", "none"}
Catalogue(slot, opaque) ==
    {NoItem(slot)} \cup
    {Item(slot, shape, attack, opaque) : shape \in Shapes, attack \in AttackImages}
Cover(slot, thin) == IF slot = thin THEN {1} ELSE Pixels

InitImages ==
    /\ InitPlayer
    /\ \E thin \in Slots \cup {"none"} :
       \E head \in Catalogue("head", Cover("head", thin)),
          body \in Catalogue("body", Cover("body", thin)),
          wpn \in Catalogue("weapon", Cover("weapon", thin)),
          armleg \in Catalogue("armleg", Cover("armleg", thin)),
          shield \in Catalogue("shield", Cover("shield", thin)) :
          equipped = [head |-> head, body |-> body, weapon |-> wpn,
                      armleg |-> armleg, shield |-> shield]
    /\ InitFrames
    /\ InitClipAs(<<1, "normal", "back">>)
    /\ InitPalettes(PlainFrames)

\* make_all_animations: make_images() and make_images(True, DRAW_ATTACK_ORDER)
Compose ==
    /\ ~built
    /\ built' = TRUE
    /\ LET standard == [attack \in BOOLEAN |->
                           MakeImages(equipped, attack,
                                      IF attack THEN DRAW_ATTACK_ORDER ELSE DRAW_ORDER)]
       IN  composed' = [k \in FrameKeys |-> standard[k[1]][k[2]][k[3]]]
    /\ blitted' = [k \in FrameKeys |->
                      [slot \in Slots |-> Contribution(equipped, k[1], k[2], slot, k[3])]]
    /\ UNCHANGED <<equipped, pvars, hvars, cvars, tvars>>

NextImages == Compose
SpecImages == InitImages /\ [][NextImages]_vars

\* One clip of the table, standard or hit-flash, queried and reset on its own.
ClipTicks == {3, 6}
MaxSpan == 130

InitClip ==
    /\ InitPlayer
    /\ equipped = SetEquips
    /\ InitFrames
    /\ InitPalettes(PlainFrames)
    /\ \E hit \in HitIndex : InitClipAs(<<hit, "normal", "back">>)

\* clip.get_next_frame(now), d after the previous call
ClipQuery(d) ==
    /\ (span # NoTimer) => (span + d <= MaxSpan)
    /\ span' = IF span = NoTimer THEN 0 ELSE span + d
    /\ clip' = GetNextFrame(Elapse(clip, d))
    /\ changes' = IF Advances(Elapse(clip, d)) THEN changes + 1 ELSE changes
    /\ Note("get_next_frame", d)

\* clip.reset()
ClipReset ==
    /\ clip' = Reset(clip)
    /\ span' = NoTimer
    /\ changes' = 0
    /\ Note("reset", 0)

Alone == UNCHANGED <<pvars, pressed_at, clock, shown, before, ivars, tvars>>
Query == \E d \in ClipTicks : ClipQuery(d) /\ Alone
Rewind == ClipReset /\ Alone
NextClip == Query \/ Rewind
SpecClip == InitClip /\ [][NextClip]_vars

\* Walking right, attacks and collisions between ticks; each tick records the
\* position it starts from.
TickFrom ==
    \E d \in TickLengths :
        /\ CheckStates(d)
        /\ Note("update", d)
        /\ before' = exact_position
        /\ UNCHANGED <<pressed_at, clock, shown, ivars, cvars, tvars>>
NextWalk ==
    \/ Turn \/ Straighten \/ AttackKey \/ Collision
    \/ TickFrom \/ TickAdjust \/ TickMove \/ TickWeapon \/ TickCommit
SpecWalk == Init /\ [][NextWalk]_vars

\* Hits and attacks between ticks, the player standing still.
Struck == GotHit(0) /\ Note("got_hit", 0) /\ Quiet
TickShow == AdjustFrames /\ UNCHANGED last /\ Quiet
NextStrike ==
    \/ Struck \/ AttackKey
    \/ Tick \/ TickShow \/ TickMove \/ TickWeapon \/ TickCommit
SpecStrike == Init /\ [][NextStrike]_vars

\* Ticks that keep coming, with hits, collisions, two direction keys and
\* attacks between them.  Of all the interleavings this keeps those in which
\* keys, attacks and collisions come in hit state only, at the moments when
\* the hit-flash clip last looked up has played through, and in which every
\* hit takes all the health the player starts with, which the bound on the
\* loss allows once.  The main loop calls update once per frame: a tick that
\* can run does run, and a tick begun is finished.
PlayedThrough ==
    hit_state /\ all_animations[<<Index(TRUE), action_state, direction>>].done
LiveKeys == {"K_UP", "K_RIGHT"}
PressLive ==
    \E key \in LiveKeys :
        PlayedThrough /\ AddDirection(key) /\ Note("add_direction", key) /\ Quiet
ReleaseLive ==
    \E key \in LiveKeys :
        PlayedThrough /\ PopDirection(key) /\ Note("pop_direction", key) /\ Quiet
AttackLive == PlayedThrough /\ Attack(TRUE) /\ Note("attack", TRUE) /\ Quiet
CollisionLive == PlayedThrough /\ Collision
StruckDown ==
    /\ hit_state \/ health - INITIAL_HEALTH >= -MaxLoss
    /\ GotHit(INITIAL_HEALTH)
    /\ Note("got_hit", INITIAL_HEALTH)
    /\ Quiet
Update == Tick \/ TickShow \/ TickMove \/ TickWeapon \/ TickCommit
NextLive ==
    \/ PressLive \/ ReleaseLive \/ AttackLive \/ StruckDown \/ CollisionLive
    \/ Tick \/ TickShow \/ TickMove \/ TickWeapon \/ TickCommit
SpecLive == Init /\ [][NextLive]_vars /\ WF_vars(Update)

\* make_hit_images on the two frames of a clip, each frame holding one
\* colour besides the fill colour; the channel values lie below, at and above
\* the point where the boost reaches the maximum.
Channels == {0, 85, 105, 200}
Colours == Channels \X Channels \X Channels
InitTint ==
    /\ InitPlayer
    /\ equipped = SetEquips
    /\ InitFrames
    /\ InitClipAs(<<1, "normal", "back">>)
    /\ \E c0, c1 \in Colours : InitPalettes([i \in FrameIndex |-> IF i = 0 THEN <<c0>> ELSE <<c1>>])
Tint ==
    /\ hit_frames = NoHitFrames
    /\ hit_frames' = MakeHitFrames(frames)
    /\ UNCHANGED <<frames, pvars, hvars, ivars, cvars>>
NextTint == Tint
SpecTint == InitTint /\ [][NextTint]_vars

\* Every kind of event between ticks: a direction key, attacks, collisions
\* and hits that take all the health the player starts with.  Hits come at
\* any time; the other events come outside hit state and, in hit state, when
\* the hit-flash clip last looked up has played through.  The last handler is
\* not recorded.
Settled == ~hit_state \/ PlayedThrough
Unnoted == UNCHANGED last /\ Quiet
TurnAll == \E key \in TurnKeys : Settled /\ AddDirection(key) /\ Unnoted
StraightenAll == \E key \in TurnKeys : Settled /\ PopDirection(key) /\ Unnoted
AttackAll == Settled /\ Attack(TRUE) /\ Unnoted
CollisionAll == Settled /\ CollideWithSolid /\ Unnoted
StruckAll ==
    /\ hit_state \/ health - INITIAL_HEALTH >= -MaxLoss
    /\ GotHit(INITIAL_HEALTH)
    /\ Unnoted
TickAll == \E d \in TickLengths : CheckStates(d) /\ Unnoted
NextAll ==
    \/ TurnAll \/ StraightenAll \/ AttackAll \/ CollisionAll \/ StruckAll
    \/ TickAll \/ TickShow \/ TickMove \/ TickWeapon \/ TickCommit
SpecAll == Init /\ [][NextAll]_vars

---------------------------------------------------------------------------
(* Claims *)

NoDuplicates(s) == \A i, j \in 1..Len(s) : i # j => s[i] # s[j]

\* C1: the direction stack never holds a direction twice, and right after
\* add_direction with a bound key that key's direction is the top of the stack.
C1_StackTopNoDuplicates ==
    /\ NoDuplicates(direction_stack)
    /\ (last.op = "add_direction" /\ last.arg \in DOMAIN controls) =>
          /\ direction_stack # <<>>
          /\ Top(direction_stack) = controls[last.arg]

\* C1 witness: up, right, up were pressed; the re-pressed direction is on top
\* of the other one, once.
C1_Witness ==
    /\ last.op = "add_direction" /\ last.arg = "K_UP"
    /\ clock = 3
    /\ pressed_at["back"] = 3 /\ pressed_at["right"] = 2
    /\ direction_stack = <<"right", "back">>

\* C2: the direction changes only in the frame-selection step of a tick, and
\* there it becomes the most recently pressed direction that is still held;
\* with no direction held it stays what it was.
C2_Rollover ==
    [][direction' = IF pc = "adjust_frames" /\ Held # {}
                    THEN MostRecentlyPressed
                    ELSE direction]_vars

\* C2 witness: after up then right were pressed and up was released, a tick
\* ends facing right.
C2_Witness ==
    /\ pc = "idle" /\ last.op = "update"
    /\ clock = 2
    /\ pressed_at["back"] = 0 /\ pressed_at["right"] = 2
    /\ pressed_at["front"] = 0 /\ pressed_at["left"] = 0
    /\ direction = "right"

\* C3: got_hit in hit state changes neither health nor hit_state; got_hit out
\* of hit state applies the damage and enters hit state; health changes in no
\* other step, hence at most once per stay in hit state.
C3_HitOnce ==
    [][/\ (last'.op = "got_hit" /\ pc = "idle" /\ hit_state) =>
              (health' = health /\ hit_state')
       /\ (last'.op = "got_hit" /\ pc = "idle" /\ ~hit_state) =>
              /\ hit_state'
              /\ health' = IF health - last'.arg < 0 THEN health - last'.arg ELSE 0
       /\ (health' # health) =>
              (pc = "idle" /\ last'.op = "got_hit" /\ ~hit_state /\ hit_state')]_vars

\* C3 witness: damage 5 was delivered again while a flash frame of the first
\* hit is on display; health is what the first hit left.
C3_Witness ==
    /\ last.op = "got_hit" /\ last.arg = 5
    /\ hit_state /\ image.hit = 1
    /\ health = 0

\* C4: a stay in hit state ends after exactly one complete playback of a
\* hit-flash clip: its two frames, HIT_LOOPS times.
C4_WindowIsOnePlayback ==
    [][(hit_state /\ ~hit_state') => shown = 2 * HIT_LOOPS]_vars

\* C5: a tick that starts in attack state with the weapon no longer attacking
\* resolves to normal and sets the redraw flag in its first step; frame
\* selection then shows a frame of the resolved action state, and movement
\* of that tick runs.
C5_AttackEnds ==
    [][/\ (pc = "idle" /\ pc' = "adjust_frames"
              /\ action_state = "attack" /\ ~weapon.attacking) =>
              (action_state' = "normal" /\ redraw')
       /\ (pc = "adjust_frames" /\ redraw) =>
              (pc' = "move" /\ image'.action = action_state /\ ~redraw')
       /\ (pc = "move" /\ action_state = "normal") =>
              (old_position' = exact_position /\ weapon' = weapon)]_vars

\* C5 witness: state resolution has just left the attack state whose frame is
\* still on display.
C5_Witness ==
    /\ pc = "adjust_frames"
    /\ image.action = "attack"
    /\ action_state = "normal"
    /\ ~weapon.attacking
    /\ redraw

\* C6: attack() in attack state does not ask the weapon and changes nothing;
\* otherwise it asks the weapon, and enters attack state with the redraw flag
\* set exactly when the weapon is ready.
C6_AttackStart ==
    [][(pc = "idle" /\ last'.op = "attack") =>
          IF action_state = "attack"
          THEN weapon' = weapon /\ action_state' = action_state /\ redraw' = redraw
          ELSE /\ weapon'.asked # weapon.asked
               /\ IF last'.arg
                  THEN action_state' = "attack" /\ redraw'
                  ELSE action_state' = action_state /\ redraw' = redraw]_vars

\* C6 witness: attack() was called with the attack frame already on display;
\* the weapon has been asked once.
C6_Witness ==
    /\ pc = "idle" /\ last.op = "attack"
    /\ action_state = "attack" /\ image.action = "attack"
    /\ weapon.attacking /\ weapon.asked = 1

Highest(S) == CHOOSE i \in S : \A j \in S : j <= i
OrderFor(attack, dir) == IF attack THEN DRAW_ATTACK_ORDER[dir] ELSE DRAW_ORDER[dir]

\* C7: in every composed frame, of either mode, every pixel shows the image
\* of the last slot in the table's order for that mode and direction whose
\* contribution is opaque there, and the colour key where there is none.
C7_Layering ==
    built =>
        \A k \in FrameKeys, p \in Pixels :
            LET order == OrderFor(k[1], k[2])
                covering == {i \in 1..Len(order) : p \in blitted[k][order[i]].opaque}
            IN  composed[k][p] =
                    IF covering = {} THEN COLOR_KEY
                    ELSE blitted[k][order[Highest(covering)]].name

\* C7 witness: facing back, the shield is over the head when attacking and
\* under it otherwise, and the body shows where the head is transparent.
C7_Witness ==
    /\ built
    /\ composed[<<TRUE, "back", 0>>][1][1] = "shield"
    /\ composed[<<FALSE, "back", 0>>][1][1] = "head"
    /\ composed[<<FALSE, "back", 0>>][2][1] = "body"

\* The image get_part_image is specified to take for a slot.
NormalEntry(slot, dir) ==
    IF slot = "armleg" /\ dir = "right" /\ equipped["shield"].present
    THEN equipped[slot].images["right_with_shield"]
    ELSE equipped[slot].images[dir]

\* C8: with a shield equipped and facing right the armleg slot contributes its
\* right-with-shield image, in the normal composition and, for an item that
\* reuses its normal images when attacking, in the attack composition; with
\* no shield or in another direction it contributes its image of the direction.
C8_ShieldOverride ==
    built =>
        \A k \in FrameKeys :
            (equipped["armleg"].present
                /\ (k[1] => equipped["armleg"].attack_images = "normal")) =>
            blitted[k]["armleg"] = PickFrame(NormalEntry("armleg", k[2]), k[3])

\* C9: composing never raises; an empty slot contributes nothing in either
\* mode; a single image serves both frame indices; when attacking, an item
\* without attack images contributes nothing, one marked "normal" its image
\* of the direction, one with its own set the image of that set, indexed by
\* the frame when it is a pair.
C9_DegradedShapes ==
    built =>
        \A k \in FrameKeys, slot \in Slots :
            LET item == equipped[slot]
                got == blitted[k][slot]
                Indexed(entry) == IF entry.shape = "pair" THEN entry.frames[k[3] + 1]
                                  ELSE entry.frames[1]
            IN  /\ composed[k] # FaultCanvas
                /\ got # Fault
                /\ ~item.present => got = Nothing
                /\ (item.present /\ ~k[1]) =>
                      /\ got = Indexed(NormalEntry(slot, k[2]))
                      /\ NormalEntry(slot, k[2]).shape = "single" =>
                            got = blitted[<<FALSE, k[2], 1 - k[3]>>][slot]
                /\ (item.present /\ k[1]) =>
                      got = IF item.attack_images = "normal"
                            THEN Indexed(item.images[k[2]])
                            ELSE IF item.attack_images = "own"
                                 THEN Indexed(item.own_attack_images[k[2]])
                                 ELSE Nothing

\* C9 witness: composed with an empty shield slot, a single-image head, a
\* weapon without attack images and a body with its own pair of them.
C9_Witness ==
    /\ built
    /\ ~equipped["shield"].present
    /\ equipped["head"].present /\ equipped["head"].images["back"].shape = "single"
    /\ blitted[<<FALSE, "back", 1>>]["head"].name = <<"head", "normal", "back", 0>>
    /\ equipped["weapon"].present
    /\ blitted[<<TRUE, "back", 1>>]["weapon"] = Nothing
    /\ blitted[<<TRUE, "back", 1>>]["body"].name = <<"body", "attack", "back", 1>>

C11_RollbackToPriorTick ==
    (last.op = "collide_with_solid") =>
        (exact_position = before /\ rect = before)

\* The player's fields other than the direction stack.
OtherFields ==
    <<direction, exact_position, old_position, rect, action_state, hit_state,
      redraw, health, image, all_animations, weapon, pc, dt>>

\* C12: pop_direction for a direction that is not on the stack, and
\* add_direction or pop_direction with an unbound key, change no field of the
\* player; pop_direction for a direction on the stack takes exactly that entry
\* off, keeps the others in their order and changes no other field.
C12_ReleaseFrame ==
    [][(pc = "idle" /\ last'.op \in {"add_direction", "pop_direction"}) =>
          IF last'.arg \notin DOMAIN controls
          THEN pvars' = pvars
          ELSE (last'.op = "pop_direction") =>
                  /\ OtherFields' = OtherFields
                  /\ IF Contains(direction_stack, controls[last'.arg])
                     THEN direction_stack' =
                             SelectSeq(direction_stack,
                                       LAMBDA e : e # controls[last'.arg])
                     ELSE direction_stack' = direction_stack]_vars

\* C12 witness: up, right and left were pressed in that order and right was
\* released: the entry in the middle is gone, the other two keep their order.
C12_Witness ==
    /\ last.op = "pop_direction" /\ last.arg = "K_RIGHT"
    /\ clock = 3
    /\ pressed_at["back"] = 1 /\ pressed_at["left"] = 3 /\ pressed_at["right"] = 0
    /\ direction_stack = <<"back", "left">>

\* C13: hit_state turns false only in the state-resolution step of a tick, and
\* only when the hit-flash clip of the direction and of the action state as
\* resolved in that step is done; the step resets that clip; and the step
\* sets the redraw flag whenever the tick begins in hit state.
C13_HitEndsOnDone ==
    [][/\ (hit_state /\ ~hit_state') =>
              LET id == <<Index(TRUE), action_state', direction>>
              IN  /\ pc = "idle" /\ pc' = "adjust_frames"
                  /\ all_animations[id].done
                  /\ ~all_animations'[id].done
                  /\ all_animations'[id].frame = 0
                  /\ all_animations'[id].loop_count = 0
       /\ (pc = "idle" /\ pc' = "adjust_frames" /\ hit_state) => redraw']_vars

\* C13 witness: one state-resolution step has ended both the attack and the
\* hit, a flash frame of the attack still on display; the clip it found done
\* and reset is the one of the normal state.
C13_Witness ==
    /\ pc = "adjust_frames"
    /\ ~hit_state /\ redraw
    /\ image.hit = Index(TRUE) /\ image.action = "attack"
    /\ action_state = "normal"
    /\ ~all_animations[<<Index(TRUE), "normal", "back">>].done
    /\ all_animations[<<Index(TRUE), "normal", "back">>].loop_count = 0

\* C14: with ticks that keep coming, a hit state is always left again,
\* whatever happens between the ticks.
C14_HitStateLeft ==
    ([]<>(pc = "commit")) => (hit_state ~> ~hit_state)

\* C15: the frame-selection step of a tick queries the clip of (hit_state,
\* action_state, direction) and displays its frame exactly when the direction
\* stack is non-empty, hit_state is true or the redraw flag is set; otherwise
\* it leaves the displayed frame and every clip as they are; it clears the
\* redraw flag, which is therefore false when a tick is over.
C15_FrameSelection ==
    /\ [](((pc \in {"move", "commit"}) \/ (pc = "idle" /\ last.op = "update"))
              => ~redraw)
    /\ [][(pc = "adjust_frames") =>
              LET id == <<Index(hit_state), action_state, direction'>>
              IN  /\ IF direction_stack # <<>> \/ hit_state \/ redraw
                     THEN /\ all_animations' =
                                 [all_animations EXCEPT
                                     ![id] = GetNextFrame(all_animations[id])]
                          /\ image' = Frame(id, all_animations'[id].frame)
                     ELSE /\ all_animations' = all_animations
                          /\ image' = image
                  /\ ~redraw']_vars

\* C15 witness: frame selection has just run with the stack empty, outside
\* hit state; the clip of the frame on display was not queried, its timer
\* still runs from an earlier tick.
C15_Witness ==
    /\ pc = "move"
    /\ direction_stack = <<>> /\ ~hit_state
    /\ image = Frame(<<Index(FALSE), action_state, direction>>, image.idx)
    /\ all_animations[<<Index(FALSE), action_state, direction>>].since > 0

\* C16: no step of a tick changes the direction stack; the positions change
\* in the third step only, and there only when the resolved action state is
\* normal: the prior position becomes the position the tick began at, and the
\* position advances by speed x vector x dt along the top of the stack exactly
\* when the stack is non-empty, the weapon being left alone; in attack state
\* that step leaves both positions to the weapon's turn.
C16_AttackSuppressesMovement ==
    [][/\ (pc # "idle" \/ pc' # "idle") => direction_stack' = direction_stack
       /\ ((pc = "idle" /\ pc' # "idle") \/ pc \in {"adjust_frames", "commit"}) =>
              (exact_position' = exact_position /\ old_position' = old_position)
       /\ (pc = "move" /\ action_state = "attack") =>
              (exact_position' = exact_position /\ old_position' = old_position)
       /\ (pc = "move" /\ action_state = "normal") =>
              /\ old_position' = exact_position
              /\ weapon' = weapon
              /\ exact_position' =
                    IF direction_stack # <<>>
                    THEN <<exact_position[1]
                              + Speed * DIRECT_DICT[Top(direction_stack)][1] * dt,
                           exact_position[2]
                              + Speed * DIRECT_DICT[Top(direction_stack)][2] * dt>>
                    ELSE exact_position]_vars

\* C16 witness: a tick in attack state, up and right held, has had its third
\* step: the player has walked before and has not moved in this tick.
C16_Witness ==
    /\ pc = "commit"
    /\ action_state = "attack"
    /\ direction_stack = <<"back", "right">>
    /\ exact_position = rect
    /\ exact_position # old_position

\* C17: health is 28 at construction; an accepted got_hit(damage) sets it to
\* the smaller of health - damage and 0, so it is at most 0 once a hit has
\* been accepted; no other step changes it.
C17_DamageArithmetic ==
    /\ []((last.op = "init") => health = INITIAL_HEALTH)
    /\ [](health = INITIAL_HEALTH \/ health <= 0)
    /\ [][/\ (pc = "idle" /\ last'.op = "got_hit" /\ ~hit_state) =>
                /\ hit_state'
                /\ health' <= 0
                /\ health' <= health - last'.arg
                /\ health' \in {0, health - last'.arg}
          /\ (health' # health) =>
                (pc = "idle" /\ last'.op = "got_hit" /\ ~hit_state)]_vars

\* C17 witness: a second hit of damage 5 has been accepted, the first one
\* having left health at 0 although it took 5 from 28.
C17_Witness ==
    /\ last.op = "got_hit" /\ last.arg = 5
    /\ hit_state
    /\ shown = 0
    /\ health = -5

\* The channel the claim has boosted in the frame at index i.
ClaimedIndex(i) == IF i % 2 = 0 THEN RED ELSE BLUE

\* C18: the flash clip has as many frames as the clip it is made of; in the
\* frame at an even index the red channel of every palette colour is raised by
\* 150 and kept to 255 at most, at an odd index the blue channel; the other
\* channels are as they were; the colorkey of a frame is the fill colour with
\* that frame's boost.
C18_Tint ==
    (hit_frames # NoHitFrames) =>
        /\ DOMAIN hit_frames = DOMAIN frames
        /\ \A i \in DOMAIN frames :
              LET before_tint == Palette(frames[i])
                  after_tint == hit_frames[i].palette
                  ch == ClaimedIndex(i)
              IN  /\ DOMAIN after_tint = DOMAIN before_tint
                  /\ \A k \in DOMAIN before_tint :
                        /\ after_tint[k][ch] =
                              (IF before_tint[k][ch] + 150 > 255 THEN 255
                               ELSE before_tint[k][ch] + 150)
                        /\ \A other \in {1, 2, 3} \ {ch} :
                              after_tint[k][other] = before_tint[k][other]
                  /\ hit_frames[i].colorkey = after_tint[1]

\* The frame on display is one of the clip that (hit_state, action_state,
\* direction) selects.
OnDisplay ==
    /\ image # NoImage
    /\ image.hit = Index(hit_state)
    /\ image.action = action_state
    /\ image.dir = direction
    /\ image.idx \in 0 .. (all_animations[<<Index(hit_state), action_state, direction>>].nframes - 1)

\* C19: when a tick is over, the displayed frame is defined and is a frame of
\* the clip selected by the current hit state, action state and direction,
\* whatever came between the ticks.
C19_FrameMatchesState ==
    [][(pc = "commit") => OnDisplay']_vars

\* C19 witness: a hit has been taken and is over, an attack goes on facing
\* right with no key held, and the last tick did not query the clip: the
\* frame on display is still one of the attack clip facing right.
C19_Witness ==
    /\ pc = "idle"
    /\ direction_stack = <<>> /\ ~hit_state /\ health = 0
    /\ action_state = "attack" /\ direction = "right"
    /\ OnDisplay
    /\ all_animations[<<Index(FALSE), "attack", "right">>].since > 0

\* C20: outside hit state every one of the eight hit-flash clips is as reset()
\* leaves it: not done, at frame 0, with no loop counted.
C20_HitClipsReset ==
    ~hit_state =>
        \A a \in Actions, d \in Directions :
            /\ ~all_animations[<<Index(TRUE), a, d>>].done
            /\ all_animations[<<Index(TRUE), a, d>>].frame = 0
            /\ all_animations[<<Index(TRUE), a, d>>].loop_count = 0

===========================================================================
